---- MODULE Spec2Model ----
(***************************************************************************)
(* Model of the copr backend dispatcher (backend/dispatcher.py): a pool of *)
(* Worker processes, each looping over a shared job queue and driving one  *)
(* job at a time through parse -> spawn_instance -> per-chroot build ->    *)
(* return_results -> terminate_instance.                                   *)
(*                                                                         *)
(* An exception that nothing in Worker.run catches propagates out of run() *)
(* and ends the Worker process; that is the pc value "crashed".            *)
(***************************************************************************)
EXTENDS Integers, Sequences, FiniteSets, TLC

\* ------------------------------------------------------------------ bounds
NumWorkers == 2        \* Worker processes in the pool specification
NumJobs == 2           \* job files put on the queue
NumAddrs == 2          \* machine addresses the provider can hand out
NumInst == 2           \* rpmbuild processes started on one configuration
MaxChroots == 3        \* longest chroot list, one Worker in isolation

\* ------------------------------------------------------- program constants
None == 0              \* Python None / "no ip"
NoJob == 0             \* no job file dequeued yet
Success == 1           \* status = 1
Failure == 0           \* status = 0 # failure
Unset == 2             \* job.status before run() assigns it
NoPid == 0             \* pidfile not written by any of the processes

Workers == 1..NumWorkers
JobIds == 1..NumJobs
Addresses == 1..NumAddrs

\* chroot names; a job file lists a prefix of them, space separated
Names == <<"A", "B", "C", "D", "E">>

\* keys parse_job reads from d['builds'][0]
RequiredKeys ==
  {"pkgs", "repos", "chroots", "memory_reqs", "timeout", "copr", "id", "user_id"}

RECURSIVE JoinNames(_)
\* the value of build['chroots'] listing the first n names: "A B C"
JoinNames(n) ==
  IF n = 0 THEN <<>>
  ELSE IF n = 1 THEN <<Names[1]>>
  ELSE JoinNames(n - 1) \o <<" ", Names[n]>>

\* the job files a producer may put on the queue: one lacks the pkgs key,
\* the others are well formed and list min..max chroot names
JobFileContents(min, max) ==
  { [keys |-> RequiredKeys \ {"pkgs"}, chroots |-> JoinNames(1)] }
    \cup { [keys |-> RequiredKeys, chroots |-> JoinNames(n)] : n \in min..max }

RECURSIVE Split(_)
\* Python's s.split(' '): always at least one (possibly empty) field
Split(s) ==
  IF s = <<>> THEN << <<>> >>
  ELSE IF Head(s) = " " THEN << <<>> >> \o Split(Tail(s))
  ELSE LET r == Split(Tail(s)) IN << <<Head(s)>> \o Head(r) >> \o Tail(r)

\* parse_job raises (KeyError) when a key it reads is missing
ParseOk(f) == RequiredKeys \subseteq f.keys

\* the job file with reference j and content c: its timeout, pkgs and
\* repos values differ from those of every other job file
JobFile(j, c) ==
  [keys |-> c.keys, chroots |-> c.chroots, timeout |-> 600 * j,
   pkgs |-> JoinNames(j), repos |-> <<"r", " ", Names[j]>>]

\* the Bunch parse_job returns, with job.jobfile set by run()
Bunch(f, jf) ==
  [jobfile |-> jf, chroots |-> Split(f.chroots), status |-> Unset,
   timeout |-> f.timeout, pkgs |-> Split(f.pkgs), repos |-> Split(f.repos)]

NoBunch ==
  [jobfile |-> NoJob, chroots |-> <<>>, status |-> Unset,
   timeout |-> 0, pkgs |-> <<>>, repos |-> <<>>]

VARIABLES
  pool,      \* the started Worker processes
  selfip,    \* self.ip of each Worker (None: dynamic ip)
  jobs,      \* self.jobs, the shared queue of job file references
  files,     \* content of each job file
  moved,     \* job files shutil.move has put under destdir
  machines,  \* addresses of the machines the spawn playbook has created
  pc,        \* where each Worker is in run()
  jobfile,   \* run(): jobfile
  job,       \* run(): job
  ip,        \* run(): ip
  status,    \* run(): status
  idx,       \* run(): position of the for loop in job.chroots
  delivered, \* how many times jobs.get() returned each reference
  trace,     \* calls and failures of each Worker for its current job
  kill_received, \* self.kill_received as run() of each Worker reads it
  held,      \* addresses spawn_instance returned to each Worker and it
             \* has not yet passed to terminate_instance
  rpc,       \* rpmbuild: where each process is in main()
  act,       \* rpmbuild: the action the arguments of each process select
  lock,      \* rpmbuild: processes holding the lock on the lockfile
  lockfd,    \* rpmbuild: whether each process has the lockfile open
  pidfile,   \* rpmbuild: content of the configured pidfile
  logfile,   \* rpmbuild: lines of the configured logfile
  how        \* rpmbuild: how the try block of each process ended

vars == <<pool, selfip, jobs, files, moved, machines, pc, jobfile, job, ip,
          status, idx, delivered, trace, kill_received, held,
          rpc, act, lock, lockfd, pidfile, logfile, how>>

\* the state of the rpmbuild processes, which the dispatcher never touches
rvars == <<rpc, act, lock, lockfd, pidfile, logfile, how>>

\* the state of the dispatcher, which rpmbuild never touches
dvars == <<pool, selfip, jobs, files, moved, machines, pc, jobfile, job, ip,
           status, idx, delivered, trace, kill_received, held>>

Insts == 1..NumInst

\* no rpmbuild process has been started; the files are as another, earlier
\* process left them
RpmInit ==
  /\ rpc = [i \in Insts |-> "idle"]
  /\ act = [i \in Insts |-> "none"]
  /\ lock = {}
  /\ lockfd = [i \in Insts |-> FALSE]
  /\ pidfile = NoPid
  /\ logfile = <<>>
  /\ how = [i \in Insts |-> "none"]

Ev(op, target, addr, result) ==
  [op |-> op, target |-> target, addr |-> addr, result |-> result]

Range(s) == { s[i] : i \in DOMAIN s }

\* ------------------------------------------------------------------- Init
\* the ip arguments of the Workers up to a renaming of the addresses: a
\* pinned Worker has an address an earlier Worker has, or the next new one
FirstUseOrder(f) ==
  \A w \in Workers :
    f[w] # None => f[w] <= 1 + Cardinality({ f[v] : v \in 1..(w - 1) } \ {None})

\* the ip arguments of the Workers up to a renumbering of the Workers of the
\* pool, which differ in nothing but their ip: unpinned ones come first
WorkerOrder(f, P) == \A v, w \in P : v < w => f[v] <= f[w]

InitWith(P, F) ==
  /\ pool = P
  /\ selfip \in { f \in [Workers -> {None} \cup Addresses] :
                    /\ \A w \in Workers \ P : f[w] = None
                    /\ FirstUseOrder(f)
                    /\ WorkerOrder(f, P) }
  /\ jobs = [i \in 1..NumJobs |-> i]
  /\ \E c \in [JobIds -> F] : files = [j \in JobIds |-> JobFile(j, c[j])]
  /\ moved = {}
  /\ machines = {}
  /\ pc = [w \in Workers |-> "get"]
  /\ jobfile = [w \in Workers |-> NoJob]
  /\ job = [w \in Workers |-> NoBunch]
  /\ ip = [w \in Workers |-> None]
  /\ status = [w \in Workers |-> Success]
  /\ idx = [w \in Workers |-> 1]
  /\ delivered = [j \in JobIds |-> 0]
  /\ trace = [w \in Workers |-> <<>>]
  /\ kill_received = [w \in Workers |-> FALSE]
  /\ held = [w \in Workers |-> {}]
  /\ RpmInit

\* a pool of Workers on jobs of one chroot (the chroot loop over longer
\* lists is explored by InitJob)
Init == InitWith(Workers, JobFileContents(1, 1))

\* one Worker on jobs with up to MaxChroots chroots
InitJob == InitWith({1}, JobFileContents(0, MaxChroots))

\* ---------------------------------------------------------------- actions
\* a get() that leaves the reference on the queue
QueueAfterGetPeek(q) == q

\* what is left on the queue after jobs.get() returned its head
QueueAfterGet(q) == Tail(q)

\* jobfile = self.jobs.get()
jobs_get(w) ==
  /\ pc[w] = "get"
  /\ jobs # <<>>
  /\ jobfile' = [jobfile EXCEPT ![w] = Head(jobs)]
  /\ jobs' = QueueAfterGet(jobs)
  /\ delivered' = [delivered EXCEPT ![Head(jobs)] = @ + 1]
  /\ trace' = [trace EXCEPT ![w] = <<>>]
  /\ pc' = [pc EXCEPT ![w] = "parse"]
  /\ UNCHANGED <<pool, selfip, files, moved, machines, job, ip, status, idx,
                 kill_received, held>>
  /\ UNCHANGED rvars

\* job = self.parse_job(jobfile); job.jobfile = jobfile
parse_job(w) ==
  /\ pc[w] = "parse"
  /\ LET f == files[jobfile[w]] IN
       IF ParseOk(f)
       THEN /\ job' = [job EXCEPT ![w] = Bunch(f, jobfile[w])]
            /\ pc' = [pc EXCEPT ![w] = "spawn"]
            /\ UNCHANGED trace
       ELSE /\ pc' = [pc EXCEPT ![w] = "crashed"]
            /\ trace' = [trace EXCEPT ![w] = Append(@, Ev("parse", <<>>, None, "KeyError"))]
            /\ UNCHANGED job
  /\ UNCHANGED <<pool, selfip, jobs, files, moved, machines, jobfile, ip,
                 status, idx, delivered, kill_received, held>>
  /\ UNCHANGED rvars

\* addresses the provider can give to a new machine
FreeAddrs == Addresses \ (machines \cup { selfip[w] : w \in Workers })

\* what spawn_instance returns once play.run() has returned; host is the
\* first non-localhost entry of play.SETUP_CACHE, None when there is none
SpawnReturn(sip, host) == IF sip # None THEN sip ELSE host

\* the test for a missing ip left out
IpUsableAlways(a) == TRUE

\* "if not ip: raise errors.CoprWorkerError"
IpUsable(a) == a # None

\* position of run() after the chroot at index i of n
NextPc(i, n) == IF i <= n THEN "loop" ELSE "results"

\* the trace after spawn_instance returned ret: with a usable ip run()
\* goes on to "job.started_on = time.time()"
SpawnEvents(tr, ret) ==
  IF IpUsable(ret)
  THEN tr \o << Ev("spawn", <<>>, ret, "returned"), Ev("started_on", <<>>, None, "set") >>
  ELSE Append(tr, Ev("spawn", <<>>, ret, "returned"))

\* ip = self.spawn_instance(), up to "job.started_on = time.time()"
spawn_instance(w) ==
  /\ pc[w] = "spawn"
  /\ \/ \* play.run() raises AnsibleError: logged and re-raised
        /\ trace' = [trace EXCEPT ![w] = Append(@, Ev("spawn", <<>>, None, "AnsibleError"))]
        /\ pc' = [pc EXCEPT ![w] = "crashed"]
        /\ UNCHANGED <<machines, ip, status, idx, held>>
     \/ \E host \in {None} \cup FreeAddrs :
          LET ret == SpawnReturn(selfip[w], host) IN
          /\ machines' = machines \cup ({host} \ {None})
          /\ ip' = [ip EXCEPT ![w] = ret]
          /\ held' = [held EXCEPT ![w] = @ \cup ({ret} \ {None})]
          /\ trace' = [trace EXCEPT ![w] = SpawnEvents(@, ret)]
          /\ IF IpUsable(ret)
             THEN /\ status' = [status EXCEPT ![w] = Success]
                  /\ idx' = [idx EXCEPT ![w] = 1]
                  /\ pc' = [pc EXCEPT ![w] = NextPc(1, Len(job[w].chroots))]
             ELSE /\ pc' = [pc EXCEPT ![w] = "crashed"]
                  /\ UNCHANGED <<status, idx>>
  /\ UNCHANGED <<pool, selfip, jobs, files, moved, jobfile, job, delivered,
                 kill_received>>
  /\ UNCHANGED rvars

\* a MockRemoteError that breaks out of the for loop
IdxAfterBreak(i, n, out) == IF out = "MockRemoteError" THEN n + 1 ELSE i + 1

\* loop index after the chroot at index i, whose directory or build gave out
IdxAfter(i, n, out) == i + 1

\* a failed os.makedirs that is logged but not recorded in status
StatusAfterMakedirsLost(st, mk) == st

\* status after os.makedirs gave mk for a chroot
StatusAfterMakedirs(st, mk) == IF mk = "OSError" THEN Failure ELSE st

\* a MockRemoteError that is logged but not recorded in status
StatusAfterBuildLost(st, out) == st

\* status after mr.build_pkgs gave out for a chroot
StatusAfterBuild(st, out) == IF out = "MockRemoteError" THEN Failure ELSE st

\* the build started against self.ip instead of the ip spawn_instance gave
BuilderSelfIp(sip, localip) == sip

\* builder=ip: the address a build is started against
Builder(sip, localip) == localip

\* the call mockremote.MockRemote(builder=..., timeout=..., chroot=...,
\* repos=...) followed by build_pkgs(pkgs), while it runs
MockRemote(builder, timeout, chroot, repos, pkgs) ==
  [op |-> "build", target |-> chroot, addr |-> builder, result |-> "running",
   timeout |-> timeout, repos |-> repos, pkgs |-> pkgs]

\* one chroot of the for loop: make chroot_destdir, then start MockRemote
makedirs(w) ==
  /\ pc[w] = "loop"
  /\ LET n == Len(job[w].chroots)
         chroot == job[w].chroots[idx[w]]
     IN \E mk \in {"ok", "OSError"} :
          /\ status' = [status EXCEPT ![w] = StatusAfterMakedirs(@, mk)]
          /\ IF mk = "OSError"
             THEN /\ trace' = [trace EXCEPT ![w] = Append(@, Ev("makedirs", chroot, None, mk))]
                  /\ idx' = [idx EXCEPT ![w] = IdxAfter(@, n, mk)]
                  /\ pc' = [pc EXCEPT ![w] = NextPc(idx'[w], n)]
             ELSE /\ trace' = [trace EXCEPT ![w] =
                               Append(@, MockRemote(Builder(selfip[w], ip[w]),
                                                    job[w].timeout, chroot,
                                                    job[w].repos, job[w].pkgs))]
                  /\ pc' = [pc EXCEPT ![w] = "build"]
                  /\ UNCHANGED idx
  /\ UNCHANGED <<pool, selfip, jobs, files, moved, machines, jobfile, job, ip,
                 delivered, kill_received, held>>
  /\ UNCHANGED rvars

\* mr.build_pkgs(job.pkgs) returns or raises
build_pkgs(w) ==
  /\ pc[w] = "build"
  /\ LET n == Len(job[w].chroots) IN
     \E out \in {"ok", "MockRemoteError", "Exception"} :
       /\ trace' = [trace EXCEPT ![w][Len(trace[w])].result = out]
       /\ IF out = "Exception"
          THEN /\ pc' = [pc EXCEPT ![w] = "crashed"]
               /\ UNCHANGED <<status, idx>>
          ELSE /\ status' = [status EXCEPT ![w] = StatusAfterBuild(@, out)]
               /\ idx' = [idx EXCEPT ![w] = IdxAfter(@, n, out)]
               /\ pc' = [pc EXCEPT ![w] = NextPc(idx'[w], n)]
  /\ UNCHANGED <<pool, selfip, jobs, files, moved, machines, jobfile, job, ip,
                 delivered, kill_received, held>>
  /\ UNCHANGED rvars

\* return_results called before job.ended_on and job.status are set
FinalizeMoveFirst(tr, mv) ==
  tr \o << Ev("move", <<>>, None, mv), Ev("ended_on", <<>>, None, "set") >>

\* the trace after "job.ended_on = time.time(); job.status = status" and
\* then the shutil.move of return_results, which gave mv
Finalize(tr, mv) ==
  tr \o << Ev("ended_on", <<>>, None, "set"), Ev("move", <<>>, None, mv) >>

\* a failed move that is swallowed and followed by the next dequeue
PcAfterMoveSwallowed(mv) == IF mv = "ok" THEN "terminate" ELSE "get"

\* where run() goes after return_results: on to terminate_instance, or out
\* of run() with the exception shutil.move raised
PcAfterMove(mv) == IF mv = "ok" THEN "terminate" ELSE "crashed"

\* job.ended_on, job.status = status, self.return_results(job)
return_results(w) ==
  /\ pc[w] = "results"
  /\ job' = [job EXCEPT ![w].status = status[w]]
  /\ \E mv \in {"ok", "IOError"} :
       /\ trace' = [trace EXCEPT ![w] = Finalize(@, mv)]
       /\ moved' = IF mv = "ok" THEN moved \cup {job[w].jobfile} ELSE moved
       /\ pc' = [pc EXCEPT ![w] = PcAfterMove(mv)]
  /\ UNCHANGED <<pool, selfip, jobs, files, machines, jobfile, ip, status, idx,
                 delivered, kill_received, held>>
  /\ UNCHANGED rvars

\* "while not self.kill_received": where run() goes from the loop head
WhilePc(k) == IF k THEN "exited" ELSE "get"

\* self.terminate_instance(ip), then back to the head of the while loop
terminate_instance(w) ==
  /\ pc[w] = "terminate"
  /\ \E r \in {"ok", "AnsibleError"} :
       /\ trace' = [trace EXCEPT ![w] = Append(@, Ev("terminate", <<>>, ip[w], r))]
       /\ IF r = "ok"
          THEN /\ machines' = machines \ {ip[w]}
               /\ pc' = [pc EXCEPT ![w] = WhilePc(kill_received[w])]
          ELSE /\ pc' = [pc EXCEPT ![w] = "crashed"]
               /\ UNCHANGED machines
  /\ held' = [held EXCEPT ![w] = @ \ {ip[w]}]
  /\ UNCHANGED <<pool, selfip, jobs, files, moved, jobfile, job, ip, status,
                 idx, delivered, kill_received>>
  /\ UNCHANGED rvars

Next ==
  \E w \in pool :
    \/ jobs_get(w)
    \/ parse_job(w)
    \/ spawn_instance(w)
    \/ makedirs(w)
    \/ build_pkgs(w)
    \/ return_results(w)
    \/ terminate_instance(w)

Spec == Init /\ [][Next]_vars

SpecJob == InitJob /\ [][Next]_vars

\* a shutdown request reaches Worker w: its kill_received becomes true
shutdown(w) ==
  /\ pc[w] \notin {"crashed", "exited"}
  /\ ~kill_received[w]
  /\ kill_received' = [kill_received EXCEPT ![w] = TRUE]
  /\ UNCHANGED <<pool, selfip, jobs, files, moved, machines, pc, jobfile, job,
                 ip, status, idx, delivered, trace, held>>
  /\ UNCHANGED rvars

NextKill == Next \/ \E w \in pool : shutdown(w)

\* one Worker on jobs of one chroot
InitShort == InitWith({1}, JobFileContents(1, 1))

\* a Worker process that can take a step of run() eventually takes it
SpecFair == InitShort /\ [][Next]_vars /\ WF_vars(Next)

\* the same with shutdown requests, which may or may not come
SpecKill == InitShort /\ [][NextKill]_vars /\ WF_vars(Next)

\* ------------------------------------------------- rpmbuild: main()
\* Every process is started on the same configuration, hence on the same
\* pidfile, logfile and lockfile. Process i has pid i.

Actions == {"dump_configs", "build_srpm", "build_rpm"}

\* how the body of the try statement can end
Raised == {"RuntimeError", "OSError", "Exception", "SystemExit"}
Outcomes == {"return"} \cup Raised

Line(i, msg) == [pid |-> i, msg |-> msg]

\* lockf(LOCK_EX) on a lock nobody respects: it is granted at once
LockGrantedAlways(l, i) == TRUE

\* lockf(LOCK_EX) blocks until no other process holds the lock
LockGranted(l, i) == l \subseteq {i}

\* lockf(LOCK_UN) and close(lockfd) drop the lock of the calling process only
Unlock(l, i) == l \ {i}

\* log.exception("") in either except clause; a normal return logs nothing
LogAfter(log, i, outcome) ==
  IF outcome \in Raised THEN Append(log, Line(i, "exception")) ELSE log

\* the process is started: arguments parsed, configuration read, daemonized
main(i) ==
  /\ rpc[i] = "idle"
  /\ \E a \in Actions : act' = [act EXCEPT ![i] = a]
  /\ rpc' = [rpc EXCEPT ![i] = "pid"]
  /\ UNCHANGED <<lock, lockfd, pidfile, logfile, how>>
  /\ UNCHANGED dvars

\* open(pidfile, "w"); write(str(os.getpid())); close()
write_pid(i) ==
  /\ rpc[i] = "pid"
  /\ pidfile' = i
  /\ rpc' = [rpc EXCEPT ![i] = "log"]
  /\ UNCHANGED <<act, lock, lockfd, logfile, how>>
  /\ UNCHANGED dvars

\* open(logfile, 'w').close() empties the log; the FileHandler then appends
\* the two lines log.info writes
truncate_log(i) ==
  /\ rpc[i] = "log"
  /\ logfile' = <<Line(i, "Running"), Line(i, "Version")>>
  /\ rpc' = [rpc EXCEPT ![i] = "open"]
  /\ UNCHANGED <<act, lock, lockfd, pidfile, how>>
  /\ UNCHANGED dvars

\* os.open(lockfile, O_RDWR | O_CREAT), before the try statement: an OSError
\* here ends the process with nothing to release
os_open(i) ==
  /\ rpc[i] = "open"
  /\ \/ /\ lockfd' = [lockfd EXCEPT ![i] = TRUE]
        /\ rpc' = [rpc EXCEPT ![i] = "lockf"]
        /\ UNCHANGED how
     \/ /\ how' = [how EXCEPT ![i] = "OSError"]
        /\ rpc' = [rpc EXCEPT ![i] = "exited"]
        /\ UNCHANGED lockfd
  /\ UNCHANGED <<act, lock, pidfile, logfile>>
  /\ UNCHANGED dvars

\* fcntl.lockf(lockfd, LOCK_EX, 1): granted when the lock is free, or it
\* fails with an OSError that the first except clause logs
lockf(i) ==
  /\ rpc[i] = "lockf"
  /\ \/ /\ LockGranted(lock, i)
        /\ lock' = lock \cup {i}
        /\ rpc' = [rpc EXCEPT ![i] = "init"]
        /\ UNCHANGED <<logfile, how>>
     \/ /\ how' = [how EXCEPT ![i] = "OSError"]
        /\ logfile' = LogAfter(logfile, i, "OSError")
        /\ rpc' = [rpc EXCEPT ![i] = "finally"]
        /\ UNCHANGED lock
  /\ UNCHANGED <<act, lockfd, pidfile>>
  /\ UNCHANGED dvars

\* init(args, config): rmtree and makedirs of the result directory may raise
init(i) ==
  /\ rpc[i] = "init"
  /\ \/ /\ rpc' = [rpc EXCEPT ![i] = "action"]
        /\ UNCHANGED <<logfile, how>>
     \/ /\ how' = [how EXCEPT ![i] = "OSError"]
        /\ logfile' = LogAfter(logfile, i, "OSError")
        /\ rpc' = [rpc EXCEPT ![i] = "finally"]
  /\ UNCHANGED <<act, lock, lockfd, pidfile>>
  /\ UNCHANGED dvars

\* action(args, config) and the except clauses: the selected action returns
\* or raises; whatever it raises is logged and turned into sys.exit(1)
action(i) ==
  /\ rpc[i] = "action"
  /\ \E outcome \in Outcomes :
       /\ how' = [how EXCEPT ![i] = outcome]
       /\ logfile' = LogAfter(logfile, i, outcome)
  /\ rpc' = [rpc EXCEPT ![i] = "finally"]
  /\ UNCHANGED <<act, lock, lockfd, pidfile>>
  /\ UNCHANGED dvars

\* the finally clause: fcntl.lockf(lockfd, LOCK_UN, 1); os.close(lockfd)
finally(i) ==
  /\ rpc[i] = "finally"
  /\ lock' = Unlock(lock, i)
  /\ lockfd' = [lockfd EXCEPT ![i] = FALSE]
  /\ rpc' = [rpc EXCEPT ![i] = "exited"]
  /\ UNCHANGED <<act, pidfile, logfile, how>>
  /\ UNCHANGED dvars

NextRpm ==
  \E i \in Insts :
    \/ main(i)
    \/ write_pid(i)
    \/ truncate_log(i)
    \/ os_open(i)
    \/ lockf(i)
    \/ init(i)
    \/ action(i)
    \/ finally(i)

\* no Worker of the dispatcher runs; the job files are well formed
InitRpm == InitWith({}, {f \in JobFileContents(1, 1) : ParseOk(f)})

SpecRpm == InitRpm /\ [][NextRpm]_vars

\* ----------------------------------------------------- reading the trace
Count(tr, op) == Cardinality({ i \in DOMAIN tr : tr[i].op = op })

IsTargetEvent(e) == e.op \in {"makedirs", "build"}

\* one event per chroot the for loop has visited, in order
TargetEvents(tr) == SelectSeq(tr, IsTargetEvent)

\* job[w] and trace[w] belong to the job file w dequeued last
Current(w) == jobfile[w] # NoJob /\ job[w].jobfile = jobfile[w]

\* w has finalized its current job (run() has assigned job.status)
Finalized(w) == Current(w) /\ job[w].status # Unset

\* w has left its current job: back at jobs.get() or out of run()
Done(w) == jobfile[w] # NoJob /\ pc[w] \in {"get", "crashed", "exited"}

\* w holds a machine address for its current job
Holding(w) == pc[w] \in {"loop", "build", "results", "terminate"}

ProvisionFailed(tr) ==
  \E i \in DOMAIN tr :
    tr[i].op = "spawn" /\ (tr[i].result = "AnsibleError" \/ tr[i].addr = None)

\* ----------------------------------------------------------------- claims

\* C1: the status of every finalized job is success iff every target's
\* outcome (directory creation and build) was success, and failure iff at
\* least one target's outcome was failure; every target has an outcome.
C1_StatusAggregates ==
  \A w \in pool :
    Finalized(w) =>
      LET T == TargetEvents(trace[w]) IN
      /\ Len(T) = Len(job[w].chroots)
      /\ job[w].status = Success <=> (\A i \in DOMAIN T : T[i].result = "ok")
      /\ job[w].status = Failure <=> (\E i \in DOMAIN T : T[i].result # "ok")

C1_Witness ==
  \E w \in pool :
    /\ Finalized(w)
    /\ job[w].status = Failure
    /\ LET T == TargetEvents(trace[w]) IN
         /\ Len(T) = 3
         /\ T[1].result = "ok"
         /\ T[2].result = "MockRemoteError"
         /\ T[3].result = "OSError"

\* C2 (as claimed): every job that reached the provisioning step has had,
\* once its Worker has left it, exactly one spawn_instance call and exactly
\* one terminate_instance call.
C2_OneProvisionOneDeprovision ==
  \A w \in pool :
    (Done(w) /\ Count(trace[w], "spawn") >= 1) =>
      /\ Count(trace[w], "spawn") = 1
      /\ Count(trace[w], "terminate") = 1

\* C3 (as claimed): once spawn_instance returned an address for a job,
\* terminate_instance has been attempted for that address exactly once by
\* the time the Worker has left the job, on whichever path it left it.
C3_TerminateOnEveryExit ==
  \A w \in pool :
    Done(w) =>
      \A i \in DOMAIN trace[w] :
        (trace[w][i].op = "spawn" /\ trace[w][i].addr # None) =>
          Cardinality({ k \in DOMAIN trace[w] :
                          /\ trace[w][k].op = "terminate"
                          /\ trace[w][k].addr = trace[w][i].addr }) = 1

\* C4 (as claimed): no failure in a job's processing ends the Worker
\* process.
C4_WorkerSurvives == \A w \in pool : pc[w] # "crashed"

\* C5 (as claimed): a job file that fails to parse causes no provisioning
\* call and no build call, and the Worker stays alive.
C5_ParseFailureSurvived ==
  \A w \in pool :
    Count(trace[w], "parse") >= 1 =>
      /\ Count(trace[w], "spawn") = 0
      /\ Count(trace[w], "build") = 0
      /\ pc[w] # "crashed"

\* C6: a job whose provisioning failed (spawn_instance raised or returned
\* no address) never has a build call.
C6_NoBuildWithoutMachine ==
  \A w \in pool :
    ProvisionFailed(trace[w]) =>
      /\ Count(trace[w], "build") = 0
      /\ ~Holding(w)

C6_Witness ==
  \E w \in pool :
    /\ pc[w] = "crashed"
    /\ \E i \in DOMAIN trace[w] :
         /\ trace[w][i].op = "spawn"
         /\ trace[w][i].result = "returned"
         /\ trace[w][i].addr = None

C8_DistinctAddresses ==
  \A w1, w2 \in pool :
    (w1 # w2 /\ Holding(w1) /\ Holding(w2)) => ip[w1] # ip[w2]

\* C9: every job reference is returned by at most one jobs.get(); no two
\* Workers ever have the same job; a reference a Worker took is never on
\* the queue again, also after that Worker has crashed.
C9_AtMostOnceDelivery ==
  /\ \A j \in JobIds : delivered[j] <= 1
  /\ \A w1, w2 \in pool :
       (w1 # w2 /\ jobfile[w1] # NoJob) => jobfile[w1] # jobfile[w2]
  /\ \A w \in pool : jobfile[w] \notin Range(jobs)

C9_Witness ==
  \E w1, w2 \in pool :
    /\ w1 # w2
    /\ pc[w1] = "crashed"
    /\ jobfile[w1] # NoJob
    /\ pc[w2] = "build"
    /\ jobs = <<>>

\* C10 (as claimed): when the move in return_results fails, job.status
\* keeps the computed status and terminate_instance is still called for
\* the job's address.
C10_FinalizeFailureStillTearsDown ==
  \A w \in pool :
    (Done(w) /\ \E i \in DOMAIN trace[w] :
                  trace[w][i].op = "move" /\ trace[w][i].result = "IOError") =>
      /\ job[w].status = status[w]
      /\ \E k \in DOMAIN trace[w] :
           trace[w][k].op = "terminate" /\ trace[w][k].addr = ip[w]

\* C11 (as claimed): when terminate_instance raises, the failure is only
\* logged: job.status keeps its value and the Worker goes on to its next
\* dequeue.
C11_TerminateFailureAbsorbed ==
  \A w \in pool :
    (\E k \in DOMAIN trace[w] :
       trace[w][k].op = "terminate" /\ trace[w][k].result = "AnsibleError") =>
      /\ job[w].status = status[w]
      /\ pc[w] # "crashed"

\* C12 (as claimed): once a Worker has left a job it dequeued, the job file
\* is no longer in the staging area (it has been moved under destdir).
C12_JobFileLeavesStaging ==
  \A w \in pool : Done(w) => jobfile[w] \in moved

\* C13 (as claimed): a Worker that waits in jobs.get() on an empty queue
\* eventually leaves the run loop.
C13_ExitsOnEmptyQueue ==
  \A w \in Workers :
    (w \in pool /\ pc[w] = "get" /\ jobs = <<>>) ~> (pc[w] = "exited")

\* C14 (as claimed): after a shutdown request a Worker, busy or waiting in
\* jobs.get(), eventually leaves the run loop, and it has then passed every
\* address it obtained to terminate_instance.
C14_ShutdownExits ==
  \A w \in Workers :
    (w \in pool /\ kill_received[w]) ~> (pc[w] = "exited" /\ held[w] = {})

\* C15: a target whose output directory cannot be created is recorded as
\* failed (status, and job.status once assigned, is failure), has no build
\* call, and is followed by the next target of the list.
C15_MakedirsFailureIsolated ==
  \A w \in pool :
    Current(w) =>
      LET T == TargetEvents(trace[w])
          n == Len(job[w].chroots)
      IN \A i \in DOMAIN T :
           T[i].op = "makedirs" =>
             /\ status[w] = Failure
             /\ Finalized(w) => job[w].status = Failure
             /\ \A k \in DOMAIN trace[w] :
                  ~(trace[w][k].op = "build" /\ trace[w][k].target = T[i].target)
             /\ pc[w] # "crashed" \/ i < Len(T) \/ Count(trace[w], "move") = 1
             /\ (i = Len(T) /\ i < n) => (pc[w] = "loop" /\ idx[w] = i + 1)
             /\ (i = Len(T) /\ i = n) => pc[w] \notin {"loop", "build"}

C15_Witness ==
  \E w \in pool :
    /\ Finalized(w)
    /\ job[w].status = Failure
    /\ LET T == TargetEvents(trace[w]) IN
         /\ Len(T) = 2
         /\ T[1].op = "makedirs" /\ T[1].result = "OSError"
         /\ T[2].op = "build" /\ T[2].result = "ok"

\* C16 (as claimed): an error of any kind raised by a build is caught in
\* the chroot loop and recorded as a failure of the job.
C16_AnyBuildErrorCaught ==
  \A w \in pool :
    (\E k \in DOMAIN trace[w] :
       trace[w][k].op = "build" /\ trace[w][k].result = "Exception") =>
      /\ pc[w] # "crashed"
      /\ status[w] = Failure

Has(tr, ops) == \E i \in DOMAIN tr : tr[i].op \in ops

\* every event of tr with an op in a comes before every one with an op in b
Before(tr, a, b) ==
  \A i, j \in DOMAIN tr : (tr[i].op \in a /\ tr[j].op \in b) => i < j

\* C17: the calls of a job come in the order: one spawn_instance, the
\* targets (makedirs and build calls), the move of the job file, one
\* terminate_instance; no target is visited before spawn_instance returned
\* an address or after the move or terminate_instance; started_on is set
\* between spawn_instance and the first target, ended_on and status between
\* the last target and the move.
C17_CallOrder ==
  \A w \in pool :
    LET tr == trace[w]
        targets == {"makedirs", "build"}
    IN /\ \A op \in {"spawn", "started_on", "ended_on", "move", "terminate"} :
            Count(tr, op) <= 1
       /\ Before(tr, {"spawn"}, {"started_on"})
       /\ Before(tr, {"started_on"}, targets)
       /\ Before(tr, targets, {"ended_on"})
       /\ Before(tr, {"ended_on"}, {"move"})
       /\ Before(tr, {"move"}, {"terminate"})
       /\ Has(tr, {"started_on"}) =>
            \E i \in DOMAIN tr : tr[i].op = "spawn" /\ tr[i].addr # None
       /\ Has(tr, targets) => Has(tr, {"started_on"})
       /\ Has(tr, {"ended_on"}) =>
            /\ Has(tr, {"started_on"})
            /\ Len(TargetEvents(tr)) = Len(job[w].chroots)
            /\ job[w].status # Unset
       /\ Has(tr, {"move"}) => Has(tr, {"ended_on"})
       /\ Has(tr, {"terminate"}) =>
            \E i \in DOMAIN tr : tr[i].op = "move" /\ tr[i].result = "ok"
       /\ pc[w] = "build" => ~Has(tr, {"ended_on", "move", "terminate"})

C17_Witness ==
  \E w \in pool :
    /\ pc[w] = "get"
    /\ Len(trace[w]) = 7
    /\ trace[w][1].op = "spawn"
    /\ trace[w][2].op = "started_on"
    /\ trace[w][3].op = "build"
    /\ trace[w][4].op = "build"
    /\ trace[w][5].op = "ended_on"
    /\ trace[w][6].op = "move"
    /\ trace[w][7].op = "terminate"

\* C18: every build call of a job gets the address that job's own
\* spawn_instance call returned and the timeout, package list and repository
\* list of that job's own job file, the same for all its targets.
C18_BuildArguments ==
  \A w \in pool :
    \A k \in DOMAIN trace[w] :
      trace[w][k].op = "build" =>
        LET e == trace[w][k]
            f == files[jobfile[w]]
        IN /\ e.addr # None
           /\ \E i \in 1..(k - 1) :
                trace[w][i].op = "spawn" /\ trace[w][i].addr = e.addr
           /\ e.timeout = f.timeout
           /\ e.pkgs = Split(f.pkgs)
           /\ e.repos = Split(f.repos)

C18_Witness ==
  \E w \in pool :
    /\ jobfile[w] = 2
    /\ 1 \in moved
    /\ selfip[w] = None
    /\ Count(trace[w], "build") >= 2
    /\ files[1].timeout # files[2].timeout

\* C19 (as claimed): a Worker given a fixed ip gets exactly that address
\* from spawn_instance without a machine being created, and
\* terminate_instance does not destroy the machine at that address.
C19_PinnedShortCircuit ==
  \A w \in pool :
    selfip[w] # None =>
      /\ \A k \in DOMAIN trace[w] :
           (trace[w][k].op = "spawn" /\ trace[w][k].result = "returned") =>
             trace[w][k].addr = selfip[w]
      /\ pool = {w} => machines = {}
      /\ \A k \in DOMAIN trace[w] :
           ~(/\ trace[w][k].op = "terminate"
             /\ trace[w][k].addr = selfip[w]
             /\ trace[w][k].result = "ok")

\* C20: a Worker holds at most one address that spawn_instance returned
\* and terminate_instance has not been called with, and none when it is
\* about to dequeue, parse or provision for a new job.
C20_OneMachinePerWorker ==
  \A w \in pool :
    /\ Cardinality(held[w]) <= 1
    /\ pc[w] \in {"get", "parse", "spawn"} => held[w] = {}

C20_Witness ==
  \E w \in pool :
    /\ pc[w] = "spawn"
    /\ jobfile[w] = 2
    /\ 1 \in moved
    /\ held[w] = {}
    /\ ip[w] # None

\* C21: in rpmbuild's main, init and the selected action run only while the
\* process holds the lock on the lockfile and no other process holds it, so
\* at most one process is in init or in its action at any time; and a process
\* that has exited, however its try block ended (normal return, RuntimeError,
\* OSError, any other exception, sys.exit), holds no lock and has the
\* lockfile closed.
C21_InitAndActionUnderLock ==
  /\ \A i \in Insts : rpc[i] \in {"init", "action"} => lock = {i}
  /\ Cardinality({i \in Insts : rpc[i] \in {"init", "action"}}) <= 1
  /\ \A i \in Insts : rpc[i] = "exited" => i \notin lock /\ ~lockfd[i]

\* one process has exited through an except clause and released the lock,
\* another then runs its action under the lock while a third party, if any,
\* is free to wait
C21_Witness ==
  \E i, j \in Insts :
    /\ rpc[i] = "exited" /\ how[i] \in Raised /\ i \notin lock
    /\ rpc[j] = "action" /\ lock = {j}

\* C22: while a process runs its action under the lock, the pidfile holds
\* that process's pid and the logfile still holds the lines the process wrote
\* after truncating it, that is, no other process has overwritten the pidfile
\* or truncated the logfile since.
C22_PidAndLogBelongToHolder ==
  \A i \in Insts :
    rpc[i] = "action" /\ i \in lock =>
      /\ pidfile = i
      /\ \E k \in 1..Len(logfile) : logfile[k] = Line(i, "Running")

====
